---------------------------- MODULE Spec2Model ----------------------------
(***************************************************************************)
(* Model of the preprocessing transforms of httomolib:                     *)
(*   normalize_cupy /                                                       *)
(*   normalize_raw_cuda  (src/src/httomolib/prep/normalize.py)              *)
(*   median_filter3d /                                                      *)
(*   remove_outlier3d    (src/httomolib/misc/corr.py)                       *)
(*   correct_distortion  (src/src/httomolib/correction.py)                  *)
(* One call is one run of the state machine: Init holds the arguments of   *)
(* the call, each action is one block of statements of the function body,  *)
(* in source order, and pc is the position inside the body.                *)
(*                                                                         *)
(* Arrays are records [shape, vals, dtype]: shape is the numpy shape, vals  *)
(* the elements in row-major (C) order.  The float32 values of the         *)
(* normalization are exact rationals (rounding is not modelled) together   *)
(* with NaN, +inf and the symbolic value -ln(q) of a positive rational q;  *)
(* the voxels of the filter and the pixels of the distortion correction    *)
(* are integers.                                                           *)
(***************************************************************************)
EXTENDS Integers, Sequences, FiniteSets, TLC

VARIABLES
    fn,        \* the function that was called
    pc,        \* position inside the function body
    args,      \* the scalar / descriptor arguments of the call
    data,      \* the caller's data array (current contents)
    flats,     \* the caller's flats array (current contents)
    darks,     \* the caller's darks array (current contents)
    snapshot,  \* contents of the caller's arrays when the call was made
    loc,       \* the local variables of the function body
    result,    \* the returned array, NoArray before the return
    err,       \* "none", or the exception that ended the call
    computed   \* TRUE once a step that computes on the data has run

vars == <<fn, pc, args, data, flats, darks, snapshot, loc, result, err, computed>>

---------------------------------------------------------------------------
(* Numbers *)

Abs(i) == IF i < 0 THEN -i ELSE i

RECURSIVE GCD(_, _)
GCD(a, b) == IF b = 0 THEN a ELSE GCD(b, a % b)

\* the rational n/d in lowest terms, d > 0
Q(n, d) ==
    LET s == IF d < 0 THEN -1 ELSE 1
        g == GCD(Abs(n), Abs(d))
    IN  [k |-> "num", n |-> (s * n) \div g, d |-> (s * d) \div g]

I(n)   == [k |-> "num", n |-> n, d |-> 1]
NaN    == [k |-> "nan", n |-> 0, d |-> 1]
PosInf == [k |-> "inf", n |-> 0, d |-> 1]

IsNum(a) == a.k = "num"
IsNaN(a) == a.k = "nan"

\* float arithmetic on finite values and NaN (NaN propagates)
FSub(a, b) == IF IsNum(a) /\ IsNum(b) THEN Q(a.n * b.d - b.n * a.d, a.d * b.d) ELSE NaN
FAdd(a, b) == IF IsNum(a) /\ IsNum(b) THEN Q(a.n * b.d + b.n * a.d, a.d * b.d) ELSE NaN
FDiv(a, b) ==
    IF IsNum(a) /\ IsNum(b)
    THEN IF b.n # 0 THEN Q(a.n * b.d, a.d * b.n)
         ELSE IF a.n = 0 THEN NaN ELSE PosInf
    ELSE NaN

\* comparisons: every comparison with NaN is false
FLt(a, b) ==
    CASE IsNum(a) /\ IsNum(b) -> a.n * b.d < b.n * a.d
      [] a.k = "neglog" /\ IsNum(b) /\ b.n = 0 -> a.n > a.d   \* -ln(q) < 0 iff q > 1
      [] OTHER -> FALSE
FGt(a, b) == FLt(b, a)
FLe(a, b) == IsNum(a) /\ IsNum(b) /\ a.n * b.d <= b.n * a.d

\* -log(a): NaN for a < 0, +inf for a = 0, 0 for a = 1
NegLog(a) ==
    CASE ~IsNum(a)   -> NaN
      [] a.n < 0     -> NaN
      [] a.n = 0     -> PosInf
      [] a.n = a.d   -> I(0)
      [] OTHER       -> [k |-> "neglog", n |-> a.n, d |-> a.d]

---------------------------------------------------------------------------
(* Arrays *)

NoArray == [shape |-> <<0>>, vals |-> <<>>, dtype |-> "", none |-> TRUE]
ArrT(s, v, t) == [shape |-> s, vals |-> v, dtype |-> t, none |-> FALSE]
Arr(s, v) == ArrT(s, v, "float32")
Ndim(a) == Len(a.shape)

RECURSIVE Prod(_)
Prod(s) == IF s = <<>> THEN 1 ELSE Head(s) * Prod(Tail(s))

\* multi-index (0-based) of the 0-based flat index i in an array of shape s
RECURSIVE Unravel(_, _)
Unravel(i, s) ==
    IF s = <<>> THEN <<>>
    ELSE LET rest == Prod(Tail(s))
         IN  <<i \div rest>> \o Unravel(i % rest, Tail(s))

RECURSIVE Ravel(_, _)
Ravel(idx, s) ==
    IF s = <<>> THEN 0
    ELSE Head(idx) * Prod(Tail(s)) + Ravel(Tail(idx), Tail(s))

At(a, idx) == a.vals[Ravel(idx, a.shape) + 1]

Max2(a, b) == IF a > b THEN a ELSE b
Min2(a, b) == IF a < b THEN a ELSE b

\* the multi-indices of a 3D array
Elements(a) ==
    {<<f, y, x>> : f \in 0..(a.shape[1] - 1), y \in 0..(a.shape[2] - 1),
                   x \in 0..(a.shape[3] - 1)}

\* numpy broadcasting: shapes aligned on the right, padded with 1 on the left
PadShape(s, n) == [i \in 1..n |-> IF i <= n - Len(s) THEN 1 ELSE s[i - (n - Len(s))]]

Broadcastable(s1, s2) ==
    LET n == Max2(Len(s1), Len(s2))
        p1 == PadShape(s1, n)
        p2 == PadShape(s2, n)
    IN  \A i \in 1..n : p1[i] = p2[i] \/ p1[i] = 1 \/ p2[i] = 1

BShape(s1, s2) ==
    LET n == Max2(Len(s1), Len(s2))
        p1 == PadShape(s1, n)
        p2 == PadShape(s2, n)
    IN  [i \in 1..n |-> IF p1[i] = 1 THEN p2[i] ELSE p1[i]]

\* the element of a that broadcasting pairs with multi-index idx of shape s
BAt(a, idx, s) ==
    LET n == Len(s)
        p == PadShape(a.shape, n)
        own == [i \in 1..n |-> IF p[i] = 1 THEN 0 ELSE idx[i]]
    IN  a.vals[Ravel(own, p) + 1]

\* the pairs of elements that broadcasting forms of a and b, in C order
BroadcastPairs(a, b) ==
    LET s == BShape(a.shape, b.shape)
    IN  [i \in 1..Prod(s) |->
            <<BAt(a, Unravel(i - 1, s), s), BAt(b, Unravel(i - 1, s), s)>>]

\* a - b and a / b, elementwise with broadcasting
ArrSub(a, b) ==
    LET p == BroadcastPairs(a, b)
    IN  Arr(BShape(a.shape, b.shape), [i \in 1..Len(p) |-> FSub(p[i][1], p[i][2])])

ArrDiv(a, b) ==
    LET p == BroadcastPairs(a, b)
    IN  Arr(BShape(a.shape, b.shape), [i \in 1..Len(p) |-> FDiv(p[i][1], p[i][2])])

RECURSIVE SumAxis0(_, _, _)
SumAxis0(a, j, k) ==
    IF k = 0 THEN I(0)
    ELSE FAdd(SumAxis0(a, j, k - 1), a.vals[(k - 1) * Prod(Tail(a.shape)) + j])

\* cupy.mean(a, axis=0, dtype=float32) of an array with ndim >= 1
Mean0(a) ==
    LET rest == Tail(a.shape)
        K == Head(a.shape)
    IN  Arr(rest, [j \in 1..Prod(rest) |-> FDiv(SumAxis0(a, j, K), I(K))])

\* a[newaxis, ...]
NewAxis(a) == Arr(<<1>> \o a.shape, a.vals)


---------------------------------------------------------------------------
(* Exceptions *)

NoErr == [type |-> "none", msg |-> ""]
Raise(t, m) == [type |-> t, msg |-> m]
Failed == err.type # "none"

\* array contents filled from a pool of values, rotated by seed
Fill(shape, pool, seed) ==
    Arr(shape, [i \in 1..Prod(shape) |-> pool[((i - 1 + seed) % Len(pool)) + 1]])

\* a shape of nd axes: the leading axis has length lead, the others 2
ShapeOf(nd, lead) == [i \in 1..nd |-> IF i = 1 THEN lead ELSE 2]

---------------------------------------------------------------------------
(* normalize_cupy *)

MaxFrames == 2      \* data frames and calibration exposures per stack
MaxW == 2           \* row length of the frames of the value-checked stacks

DataPool == <<I(12), I(0), I(3), NaN, I(1)>>
FlatPool == <<I(2), I(3), I(7), I(1)>>
DarkPool == <<I(2), I(0), I(4)>>
Cutoffs  == {I(10), I(1), I(-1)}

\* denom = (flats - darks); denom[denom < 1.0] = 1.0
NormDenom_ZeroGuard(f, d) ==
    LET denom == ArrSub(f, d)
    IN  Arr(denom.shape,
            [i \in 1..Len(denom.vals) |->
                IF IsNum(denom.vals[i]) /\ denom.vals[i].n = 0 THEN I(1)
                ELSE denom.vals[i]])

NormDenom(f, d) ==
    LET denom == ArrSub(f, d)
    IN  Arr(denom.shape,
            [i \in 1..Len(denom.vals) |->
                IF FLt(denom.vals[i], I(1)) THEN I(1) ELSE denom.vals[i]])

\* data = (data - darks) / denom
NormDivide(dat, d, denom) == ArrDiv(ArrSub(dat, d), denom)

\* data[data > cutoff] = cutoff
NormCutoff_Below(a, cutoff) ==
    Arr(a.shape, [i \in 1..Len(a.vals) |->
                     IF FLt(a.vals[i], cutoff) THEN cutoff ELSE a.vals[i]])

NormCutoff(a, cutoff) ==
    Arr(a.shape, [i \in 1..Len(a.vals) |->
                     IF FGt(a.vals[i], cutoff) THEN cutoff ELSE a.vals[i]])

\* data = -log(data)
NormMinusLog(a) == Arr(a.shape, [i \in 1..Len(a.vals) |-> NegLog(a.vals[i])])

\* data[data < 0.0] = 0.0
NormNonneg(a) ==
    Arr(a.shape, [i \in 1..Len(a.vals) |->
                     IF FLt(a.vals[i], I(0)) THEN I(0) ELSE a.vals[i]])

\* data[cp.isnan(data)] = 0
NormRemoveNans(a) ==
    Arr(a.shape, [i \in 1..Len(a.vals) |->
                     IF IsNaN(a.vals[i]) THEN I(0) ELSE a.vals[i]])

\* the statements after the validation, on arrays that broadcast
NormBody(dat, f, d, a) ==
    LET denom == NormDenom(f, d)
        v1 == NormCutoff(NormDivide(dat, d, denom), a.cutoff)
        v2 == IF a.minus_log THEN NormMinusLog(v1) ELSE v1
        v3 == IF a.nonnegativity THEN NormNonneg(v2) ELSE v2
    IN  IF a.remove_nans THEN NormRemoveNans(v3) ELSE v3

\* whether the array expressions of the body broadcast
NormBroadcasts(dat, f, d) ==
    /\ Broadcastable(f.shape, d.shape)
    /\ Broadcastable(dat.shape, d.shape)
    /\ Broadcastable(BShape(dat.shape, d.shape), BShape(f.shape, d.shape))

NormArgs ==
    [cutoff : Cutoffs, minus_log : BOOLEAN, nonnegativity : BOOLEAN,
     remove_nans : BOOLEAN]

DefaultNormArgs ==
    [cutoff |-> I(10), minus_log |-> FALSE, nonnegativity |-> FALSE,
     remove_nans |-> FALSE]

NoLoc == [flats |-> NoArray, darks |-> NoArray]

\* calls whose stacks are 3D with matching frames: the values vary
InitNormValues ==
    \E n \in 1..MaxFrames, k \in 1..MaxFrames, w \in 1..MaxW,
       sd \in 0..(Len(DataPool) - 1), sf \in 0..(Len(FlatPool) - 1),
       sk \in 0..(Len(DarkPool) - 1), a \in NormArgs :
        /\ data = Fill(<<n, 1, w>>, DataPool, sd)
        /\ flats = Fill(<<k, 1, w>>, FlatPool, sf)
        /\ darks = Fill(<<k, 1, w>>, DarkPool, sk)
        /\ args = a

\* calls whose arrays have 1 to 4 axes: the shapes vary
InitNormShapes ==
    \E nd \in 2..4, nf \in 1..4, nk \in 1..4, lead \in 2..3 :
        /\ data = Fill(ShapeOf(nd, lead), DataPool, 0)
        /\ flats = Fill(ShapeOf(nf, 2), FlatPool, 0)
        /\ darks = Fill(ShapeOf(nk, 2), DarkPool, 0)
        /\ args = DefaultNormArgs

InitNormalize ==
    /\ fn = "normalize_cupy"
    /\ pc = "start"
    /\ (InitNormValues \/ InitNormShapes)
    /\ snapshot = [data |-> data, flats |-> flats, darks |-> darks]
    /\ loc = NoLoc
    /\ result = NoArray
    /\ err = NoErr
    /\ computed = FALSE

\* darks = mean(darks, axis=0, dtype=float32); flats = mean(flats, ...)
NormReduce ==
    /\ fn = "normalize_cupy" /\ pc = "start"
    /\ loc' = [flats |-> Mean0(flats), darks |-> Mean0(darks)]
    /\ computed' = TRUE
    /\ pc' = "validate"
    /\ UNCHANGED <<fn, args, data, flats, darks, snapshot, result, err>>

\* the checks of data.ndim, flats.ndim and darks.ndim
NormValidate ==
    /\ fn = "normalize_cupy" /\ pc = "validate"
    /\ LET f == IF Ndim(loc.flats) = 2 THEN NewAxis(loc.flats) ELSE loc.flats
           d == IF Ndim(loc.darks) = 2 THEN NewAxis(loc.darks) ELSE loc.darks
       IN  IF Ndim(data) # 3
           THEN /\ err' = Raise("ValueError", "Input data must be a 3D stack of projections")
                /\ pc' = "raised"
                /\ UNCHANGED loc
           ELSE IF Ndim(f) \notin {2, 3}
           THEN /\ err' = Raise("ValueError", "Input flats must be 2D or 3D data only")
                /\ pc' = "raised"
                /\ UNCHANGED loc
           ELSE IF Ndim(d) \notin {2, 3}
           THEN /\ err' = Raise("ValueError", "Input darks must be 2D or 3D data only")
                /\ pc' = "raised"
                /\ UNCHANGED loc
           ELSE /\ loc' = [flats |-> f, darks |-> d]
                /\ pc' = "compute"
                /\ UNCHANGED err
    /\ UNCHANGED <<fn, args, data, flats, darks, snapshot, result, computed>>

\* denom ... return data
NormCompute ==
    /\ fn = "normalize_cupy" /\ pc = "compute"
    /\ IF NormBroadcasts(data, loc.flats, loc.darks)
       THEN /\ result' = NormBody(data, loc.flats, loc.darks, args)
            /\ pc' = "returned"
            /\ UNCHANGED err
       ELSE /\ err' = Raise("ValueError", "operands could not be broadcast together")
            /\ pc' = "raised"
            /\ UNCHANGED result
    /\ UNCHANGED <<fn, args, data, flats, darks, snapshot, loc, computed>>

NextNormalize == NormReduce \/ NormValidate \/ NormCompute

SpecNormalize == InitNormalize /\ [][NextNormalize]_vars

---------------------------------------------------------------------------
(* normalize_raw_cuda *)

\* uint16 projections
RawDataPool == <<I(12), I(0), I(3), I(1)>>

\* grids = (32, 32, 1)
grids == <<32, 32, 1>>

\* blocks = (data.shape[0], 1, 1)
blocks(dat) == <<dat.shape[1], 1, 1>>

\* for (int a = ty; a < A; a += blockDim.y)
ThreadRows(ty, blockDim_y, A) ==
    {a \in 0..(A - 1) : a >= ty /\ (a - ty) % blockDim_y = 0}

\* for (int b = tx; b < B; b += blockDim.x)
ThreadCols(tx, blockDim_x, B) ==
    {b \in 0..(B - 1) : b >= tx /\ (b - tx) % blockDim_x = 0}

\* the body of the two loops, for one pixel
KernelPixel(d, flat, dark, cutoff, take_log_param, nonnegativity_param) ==
    LET diff == FSub(flat, dark)
        denom == IF FLt(diff, I(1)) THEN I(1) ELSE diff
        t0 == FDiv(FSub(d, dark), denom)
        t1 == IF FGt(t0, cutoff) THEN cutoff ELSE t0
        t2 == IF take_log_param = 1 THEN NegLog(t1) ELSE t1
    IN  IF nonnegativity_param = 1 /\ FLt(t2, I(0)) THEN I(0) ELSE t2

\* the frames that the blocks of the grid address: bid = blockIdx.x;
\* data += bid * A * B; out += bid * A * B (blockIdx.y is not read)
BlockFrames(grid) == 0..(grid[1] - 1)

\* whether a thread of block bid stores pixel (a, b) of frame bid
Stored(bid, a, b, grid, block, A, B) ==
    /\ bid \in BlockFrames(grid)
    /\ \E tx \in 0..(block[1] - 1), ty \in 0..(block[2] - 1) :
          /\ a \in ThreadRows(ty, block[2], A)
          /\ b \in ThreadCols(tx, block[1], B)

\* the elements of out that the launch stores
Written(dat, grid, block) ==
    {e \in Elements(dat) :
        Stored(e[1], e[2], e[3], grid, block, dat.shape[2], dat.shape[3])}

\* the frame indexes past the stack at which the launch loads and stores
OutOfRange(dat, grid, block) ==
    {bid \in BlockFrames(grid) :
        /\ bid >= dat.shape[1]
        /\ \E a \in 0..(dat.shape[2] - 1), b \in 0..(dat.shape[3] - 1) :
              Stored(bid, a, b, grid, block, dat.shape[2], dat.shape[3])}

\* out after norm_kernel(grids, blocks, params), on out = cp.zeros(data.shape)
RawKernel(dat, flat0, dark0, a, grid, block) ==
    ArrT(dat.shape,
         [i \in 1..Prod(dat.shape) |->
             LET e == Unravel(i - 1, dat.shape)
             IN  IF Stored(e[1], e[2], e[3], grid, block,
                           dat.shape[2], dat.shape[3])
                 THEN KernelPixel(dat.vals[i],
                                  At(flat0, <<e[2], e[3]>>),
                                  At(dark0, <<e[2], e[3]>>),
                                  a.cutoff,
                                  IF a.minus_log THEN 1 ELSE 0,
                                  IF a.nonnegativity THEN 1 ELSE 0)
                 ELSE I(0)],
         "float32")

\* the stack shapes: few frames, and frame counts about the grid's width
RawShapes ==
    {<<f, h, w>> : f \in 1..MaxFrames, h \in 1..MaxW, w \in 1..MaxW}
        \cup {<<grids[1], 1, 1>>, <<grids[1] + 1, 1, 1>>, <<grids[1] + 1, 1, MaxW>>}

RawArgs ==
    [cutoff : Cutoffs, minus_log : BOOLEAN, nonnegativity : BOOLEAN,
     remove_nans : {FALSE}]

NoRawLoc ==
    [flats |-> NoArray, darks |-> NoArray, out |-> NoArray,
     written |-> {}, out_of_range |-> {}]

InitRawCuda ==
    /\ fn = "normalize_raw_cuda"
    /\ pc = "start"
    /\ \E s \in RawShapes, k \in 1..MaxFrames,
          sd \in 0..(Len(RawDataPool) - 1), sf \in 0..(Len(FlatPool) - 1),
          sk \in 0..(Len(DarkPool) - 1), a \in RawArgs :
          /\ data = [Fill(s, RawDataPool, sd) EXCEPT !.dtype = "uint16"]
          /\ flats = Fill(<<k, s[2], s[3]>>, FlatPool, sf)
          /\ darks = Fill(<<k, s[2], s[3]>>, DarkPool, sk)
          /\ args = a
    /\ snapshot = [data |-> data, flats |-> flats, darks |-> darks]
    /\ loc = NoRawLoc
    /\ result = NoArray
    /\ err = NoErr
    /\ computed = FALSE

\* dark0 = mean(darks, ...); flat0 = mean(flats, ...); out = cp.zeros(...)
RawReduce ==
    /\ fn = "normalize_raw_cuda" /\ pc = "start"
    /\ loc' = [loc EXCEPT !.flats = Mean0(flats), !.darks = Mean0(darks),
                          !.out = ArrT(data.shape,
                                       [i \in 1..Prod(data.shape) |-> I(0)],
                                       "float32")]
    /\ computed' = TRUE
    /\ pc' = "launch"
    /\ UNCHANGED <<fn, args, data, flats, darks, snapshot, result, err>>

\* norm_kernel(grids, blocks, params); return out.  Loads and stores past the
\* end of data and out are undefined: the device faults, or the call returns.
RawLaunch ==
    /\ fn = "normalize_raw_cuda" /\ pc = "launch"
    /\ LET grid == grids
           block == blocks(data)
           out == RawKernel(data, loc.flats, loc.darks, args, grid, block)
           stray == OutOfRange(data, grid, block)
       IN  /\ loc' = [loc EXCEPT !.out = out,
                                 !.written = Written(data, grid, block),
                                 !.out_of_range = stray]
           /\ \E fault \in (IF stray = {} THEN {FALSE} ELSE BOOLEAN) :
                 IF fault
                 THEN /\ err' = Raise("CUDARuntimeError",
                                      "an illegal memory access was encountered")
                      /\ pc' = "raised"
                      /\ UNCHANGED result
                 ELSE /\ result' = out
                      /\ pc' = "returned"
                      /\ UNCHANGED err
    /\ UNCHANGED <<fn, args, data, flats, darks, snapshot, computed>>

NextRawCuda == RawReduce \/ RawLaunch

SpecRawCuda == InitRawCuda /\ [][NextRawCuda]_vars

\* the two normalizations
InitNormalizers == InitNormalize \/ InitRawCuda

NextNormalizers == NextNormalize \/ NextRawCuda

SpecNormalizers == InitNormalizers /\ [][NextNormalizers]_vars

---------------------------------------------------------------------------
(* Claims about normalize_cupy *)

Returned == pc = "returned"
Raised == pc = "raised"

\* the call is one of normalize_cupy on 3D stacks whose frames match
NormStacks3D ==
    /\ fn = "normalize_cupy"
    /\ Ndim(data) = 3 /\ Ndim(flats) = 3 /\ Ndim(darks) = 3
    /\ Tail(flats.shape) = Tail(data.shape)
    /\ Tail(darks.shape) = Tail(data.shape)

RECURSIVE SumFrames(_, _, _, _)
SumFrames(a, k, y, x) ==
    IF k = 0 THEN I(0) ELSE FAdd(SumFrames(a, k - 1, y, x), At(a, <<k - 1, y, x>>))

\* per-pixel mean over the calibration frame axis
RefMean(a, y, x) == FDiv(SumFrames(a, a.shape[1], y, x), I(a.shape[1]))

\* the value after the cutoff, for output element (f, y, x)
RefAfterCutoff(f, y, x) ==
    LET dark == RefMean(darks, y, x)
        flat == RefMean(flats, y, x)
        diff == FSub(flat, dark)
        denom == IF FLt(diff, I(1)) THEN I(1) ELSE diff
        value == FDiv(FSub(At(data, <<f, y, x>>), dark), denom)
    IN  IF FGt(value, args.cutoff) THEN args.cutoff ELSE value

\* the reference of the fixed order, for output element (f, y, x)
RefNormalize(f, y, x) ==
    LET v1 == RefAfterCutoff(f, y, x)
        v2 == IF args.minus_log THEN NegLog(v1) ELSE v1
        v3 == IF args.nonnegativity /\ FLt(v2, I(0)) THEN I(0) ELSE v2
    IN  IF args.remove_nans /\ IsNaN(v3) THEN I(0) ELSE v3

NormMatchesReference ==
    /\ result.shape = data.shape
    /\ \A e \in Elements(data) : At(result, e) = RefNormalize(e[1], e[2], e[3])

NormNoNaN == \A i \in 1..Len(result.vals) : ~IsNaN(result.vals[i])

C4_CalibrationDims ==
    (fn = "normalize_cupy" /\ (Returned \/ Raised) /\ Ndim(data) = 3) =>
        IF Ndim(flats) \in {2, 3} /\ Ndim(darks) \in {2, 3}
        THEN Returned /\ result.shape = data.shape
        ELSE Raised /\ err.type = "ValueError"

\* the reduced flat equals the reduced dark at pixel (y, x)
FlatEqualsDark(y, x) == RefMean(flats, y, x) = RefMean(darks, y, x)

\* a returned normalization with minus_log and nonnegativity off
NormPlain ==
    /\ Returned
    /\ NormStacks3D \/ fn = "normalize_raw_cuda"
    /\ ~args.minus_log /\ ~args.nonnegativity

\* the elements that the call computes: all of them for normalize_cupy, the
\* frames that the grid addresses for normalize_raw_cuda
NormComputes(e) == fn = "normalize_raw_cuda" => e[1] \in BlockFrames(grids)

C14_LaunchCoversStack ==
    (fn = "normalize_raw_cuda" /\ (Returned \/ Raised)) =>
        /\ loc.written = Elements(data)
        /\ loc.out_of_range = {}

---------------------------------------------------------------------------
(* median_filter3d and remove_outlier3d *)

MaxDim == 2         \* longest axis of the value-checked volumes

BlockX == 128
VoxelPool == <<5, 5, 9, 5, 0, 6, 5>>
Difs == {I(0), Q(1, 10), I(1), I(5)}
Garbage == {0, 65535}       \* what cp.empty may hold

AllowedDtypes == {"float32", "uint16"}

AllowedKernelSizes_Range == 3..13

AllowedKernelSizes == {3, 5, 7, 9, 11, 13}

\* grid_x = (dx + block_x - 1) // block_x
GridX_Floor(dx) == dx \div BlockX

GridX(dx) == (dx + BlockX - 1) \div BlockX

\* index i of an axis of length n under reflect boundary handling
\* (d c b a | a b c d | d c b a)
Reflect(i, n) ==
    LET p == i % (2 * n)
    IN  IF p < n THEN p ELSE 2 * n - 1 - p

\* how often index u of an axis of length n occurs in the window around c
AxisCount(c, u, n, r) == Cardinality({o \in (0 - r)..r : Reflect(c + o, n) = u})

\* how often voxel u occurs in the neighbourhood of voxel c
Weight(vol, c, u, r) ==
    AxisCount(c[1], u[1], vol.shape[1], r)
      * AxisCount(c[2], u[2], vol.shape[2], r)
      * AxisCount(c[3], u[3], vol.shape[3], r)

\* the middle element of the sorted kernel_size^3 samples around voxel c
Median(vol, c, ksize) ==
    LET r == (ksize - 1) \div 2
        mid == (ksize * ksize * ksize - 1) \div 2
        w == [u \in Elements(vol) |-> Weight(vol, c, u, r)]
        AtMost(v) == {u \in Elements(vol) : At(vol, u) <= v}
        RECURSIVE Total(_)
        Total(S) == IF S = {} THEN 0
                    ELSE LET u == CHOOSE u \in S : TRUE IN w[u] + Total(S \ {u})
        Vals == {At(vol, u) : u \in Elements(vol)}
    IN  CHOOSE v \in Vals :
           /\ Total(AtMost(v)) > mid
           /\ \A v2 \in Vals : (v2 < v) => Total(AtMost(v2)) <= mid

\* |a - m| > dif, dif a rational
Exceeds(a, m, dif) == Abs(a - m) * dif.d > dif.n

\* what the thread of voxel c writes
KernelValue(vol, c, ksize, dif) ==
    LET m == Median(vol, c, ksize)
    IN  IF dif.n = 0 THEN m
        ELSE IF Exceeds(At(vol, c), m, dif) THEN m ELSE At(vol, c)

\* the output buffer after the launch with grid (gx, dy, dz) and block
\* (BlockX, 1, 1): the thread of block (bx, y, z) and lane tx serves voxel
\* (z, y, bx * BlockX + tx) when that is inside the volume
Launch(vol, out, gx, ksize, dif) ==
    ArrT(vol.shape,
         [i \in 1..Prod(vol.shape) |->
             LET c == Unravel(i - 1, vol.shape)
             IN  IF c[3] \div BlockX < gx
                 THEN KernelValue(vol, c, ksize, dif)
                 ELSE out.vals[i]],
         out.dtype)

MedFns == {"median_filter3d", "remove_outlier3d"}

FillT(shape, pool, seed, t) ==
    ArrT(shape, [i \in 1..Prod(shape) |-> pool[((i - 1 + seed) % Len(pool)) + 1]], t)

\* a constant volume with one voxel set apart
Zinger(shape, at, t) == ArrT(shape, [i \in 1..Prod(shape) |-> IF i = at THEN 100 ELSE 5], t)

\* small volumes of varied values
InitMedValues ==
    \E dz \in 1..MaxDim, dy \in 1..MaxDim, dx \in 1..MaxDim,
       seed \in 0..(Len(VoxelPool) - 1), t \in AllowedDtypes,
       ks \in {3, 5}, dif \in Difs :
        /\ data = FillT(<<dz, dy, dx>>, VoxelPool, seed, t)
        /\ args = [kernel_size |-> ks, dif |-> dif]

\* a constant 3 x 3 x 3 volume with one voxel set apart
InitMedZinger ==
    \E at \in 1..27, dif \in {I(1), I(50), I(200)} :
        /\ data = Zinger(<<3, 3, 3>>, at, "float32")
        /\ args = [kernel_size |-> 3, dif |-> dif]

\* arguments of any dtype, number of axes, axis length and kernel size
InitMedAny ==
    \E t \in {"float32", "uint16", "float64", "int32"}, nd \in 2..4,
       lead \in 0..2, ks \in 1..14 :
        /\ data = FillT(ShapeOf(nd, lead), VoxelPool, 0, t)
        /\ args = [kernel_size |-> ks, dif |-> I(0)]

InitMedian ==
    /\ fn \in MedFns
    /\ pc = "start"
    /\ (InitMedValues \/ InitMedZinger \/ InitMedAny)
    /\ flats = NoArray
    /\ darks = NoArray
    /\ snapshot = [data |-> data, flats |-> flats, darks |-> darks]
    /\ loc = NoLoc
    /\ result = NoArray
    /\ err = NoErr
    /\ computed = FALSE

\* return median_filter3d(data=data, kernel_size=kernel_size, dif=dif)
RemoveOutlierDelegate ==
    /\ fn = "remove_outlier3d" /\ pc = "start"
    /\ pc' = "median_filter3d"
    /\ UNCHANGED <<fn, args, data, flats, darks, snapshot, loc, result, err, computed>>

InMedianFilter ==
    \/ fn = "median_filter3d" /\ pc = "start"
    \/ fn = "remove_outlier3d" /\ pc = "median_filter3d"

\* the checks of dtype, shape and kernel_size
MedValidate ==
    /\ InMedianFilter
    /\ IF data.dtype \notin AllowedDtypes
       THEN /\ err' = Raise("ValueError", "The input data should be either float32 or uint16 data type")
            /\ pc' = "raised"
       ELSE IF Ndim(data) = 3 /\ \E i \in 1..3 : data.shape[i] = 0
       THEN /\ err' = Raise("ValueError", "The length of one of dimensions is equal to zero")
            /\ pc' = "raised"
       ELSE IF Ndim(data) # 3
       THEN /\ err' = Raise("ValueError", "The input array must be a 3D array")
            /\ pc' = "raised"
       ELSE IF args.kernel_size \notin AllowedKernelSizes
       THEN /\ err' = Raise("ValueError", "Please select a correct kernel size: 3, 5, 7, 9, 11, 13")
            /\ pc' = "raised"
       ELSE /\ pc' = "launch"
            /\ UNCHANGED err
    /\ UNCHANGED <<fn, args, data, flats, darks, snapshot, loc, result, computed>>

\* out = cp.empty(...); median3d(grid_dims, block_dims, params); return out
MedLaunch ==
    /\ fn \in MedFns /\ pc = "launch"
    /\ \E g \in Garbage :
          LET out == ArrT(data.shape, [i \in 1..Prod(data.shape) |-> g], data.dtype)
          IN  result' = Launch(data, out, GridX(data.shape[3]), args.kernel_size, args.dif)
    /\ computed' = TRUE
    /\ pc' = "returned"
    /\ UNCHANGED <<fn, args, data, flats, darks, snapshot, loc, err>>

NextMedian == RemoveOutlierDelegate \/ MedValidate \/ MedLaunch

SpecMedian == InitMedian /\ [][NextMedian]_vars

---------------------------------------------------------------------------
(* Claims about median_filter3d and remove_outlier3d *)

\* the offsets of the cubic neighbourhood of side ksize
Offsets(ksize) ==
    LET r == (ksize - 1) \div 2
    IN  {<<oz, oy, ox>> : oz \in (0 - r)..r, oy \in (0 - r)..r, ox \in (0 - r)..r}

\* the sample of the reflect-padded volume at offset o from voxel c
Sample(vol, c, o) ==
    At(vol, <<Reflect(c[1] + o[1], vol.shape[1]),
              Reflect(c[2] + o[2], vol.shape[2]),
              Reflect(c[3] + o[3], vol.shape[3])>>)

\* m is the middle of the sorted samples around c: at most half of the other
\* samples lie below it and more than half of all samples do not exceed it
IsMedianOf(m, vol, c, ksize) ==
    LET mid == (ksize * ksize * ksize - 1) \div 2
    IN  /\ Cardinality({o \in Offsets(ksize) : Sample(vol, c, o) < m}) <= mid
        /\ Cardinality({o \in Offsets(ksize) : Sample(vol, c, o) <= m}) > mid

\* voxel p is set apart: every other voxel holds one common value, which is
\* not p's, and no axis is shorter than the kernel
IsolatedVoxel(vol, p, ksize) ==
    /\ \A i \in 1..3 : vol.shape[i] >= ksize
    /\ \A u \in Elements(vol) \ {p} : At(vol, u) # At(vol, p)
    /\ \A u, v \in Elements(vol) \ {p} : At(vol, u) = At(vol, v)

Changed == {c \in Elements(data) : At(result, c) # At(data, c)}

\* C5: with dif > 0 every output voxel whose input differs from the median of
\* its reflect-padded neighbourhood by at most dif equals the input, and every
\* other output voxel equals that median; in a volume with one isolated voxel
\* whose deviation from its median exceeds dif, the output differs from the
\* input at that voxel only.
C5_Dezinger ==
    (fn \in MedFns /\ Returned /\ args.dif.n > 0) =>
        /\ result.shape = data.shape
        /\ \A c \in Elements(data) :
              \E m \in {At(data, u) : u \in Elements(data)} :
                  /\ IsMedianOf(m, data, c, args.kernel_size)
                  /\ At(result, c) = IF Exceeds(At(data, c), m, args.dif)
                                     THEN m ELSE At(data, c)
        /\ \A p \in Elements(data) :
              (/\ IsolatedVoxel(data, p, args.kernel_size)
               /\ \E m \in {At(data, u) : u \in Elements(data)} :
                     /\ IsMedianOf(m, data, p, args.kernel_size)
                     /\ Exceeds(At(data, p), m, args.dif))
              => Changed = {p}

\* C5 witness: remove_outlier3d has returned for a volume with one isolated
\* voxel at a corner and a threshold below its deviation, and the output
\* differs from the input at that voxel only.
C5_Witness ==
    /\ fn = "remove_outlier3d" /\ Returned /\ args.dif.n > 0
    /\ IsolatedVoxel(data, <<0, 0, 0>>, args.kernel_size)
    /\ Changed = {<<0, 0, 0>>}

\* the four conditions of the claim, from the arguments as the caller gave them
MedBadInput ==
    \/ data.dtype \notin {"float32", "uint16"}
    \/ Ndim(data) # 3
    \/ \E i \in 1..Ndim(data) : data.shape[i] = 0
    \/ args.kernel_size \notin {3, 5, 7, 9, 11, 13}

\* C6: median_filter3d (and remove_outlier3d) fails, launching no kernel and
\* returning nothing, whenever the dtype is neither float32 nor uint16, or the
\* input is not 3-dimensional, or an axis has length 0, or kernel_size is not
\* one of 3, 5, 7, 9, 11, 13; for every other input it raises nothing and
\* returns an array of the input's shape and dtype.
C6_Validation ==
    (fn \in MedFns) =>
        /\ (pc = "launch") => ~MedBadInput
        /\ Raised => /\ MedBadInput
                     /\ err.type = "ValueError"
                     /\ ~computed
                     /\ result = NoArray
        /\ Returned => /\ ~MedBadInput
                       /\ ~Failed
                       /\ result.shape = data.shape
                       /\ result.dtype = data.dtype

\* C6 witness: remove_outlier3d has failed for a float32 volume without empty
\* axes whose only fault is kernel_size = 4, and no kernel ran.
C6_Witness ==
    /\ fn = "remove_outlier3d" /\ Raised
    /\ data.dtype = "float32" /\ data.shape = <<2, 2, 2>>
    /\ args.kernel_size = 4
    /\ ~computed /\ result = NoArray

---------------------------------------------------------------------------
(* correct_distortion *)

MaxH == 3           \* tallest frame
MaxCrop == 1        \* largest crop

\* the files there are: path -> (xcenter, ycenter, list_fact), as
\* _load_metadata_txt parses them.  Centers and factors are integers and the
\* factors of the odd powers are 0, so that every coordinate is an integer.
FileContents ==
    { [x |-> 1, y |-> 1, fact |-> <<1>>],
      [x |-> 1, y |-> 1, fact |-> <<1, 0, 0>>],
      [x |-> 1, y |-> 0, fact |-> <<2>>],
      [x |-> 0, y |-> 1, fact |-> <<1, 0, 1>>],
      [x |-> 1, y |-> 1, fact |-> <<0>>] }

NoModel == [x |-> 0, y |-> 0, fact |-> <<>>]

Paths == {"None", "missing.txt", "coeffs.txt"}

\* os.path.isfile(path) / open(path) succeeding
IsFile(path) == path = "coeffs.txt"

RECURSIVE Pow(_, _)
Pow(b, e) == IF e = 0 THEN 1 ELSE b * Pow(b, e - 1)

\* the integer square root
Root(n) == CHOOSE r \in 0..n : r * r <= n /\ (r + 1) * (r + 1) > n

\* factor * ru ** i, with ru = sqrt(r2): exact for even i, for factor = 0 and
\* for r2 a square
Term(factor, i, r2) ==
    IF factor = 0 THEN 0
    ELSE IF i % 2 = 0 THEN factor * Pow(r2, i \div 2)
    ELSE factor * Pow(Root(r2), i)

RECURSIVE FactSum(_, _, _)
FactSum(list_fact, n, r2) ==
    IF n = 0 THEN 0
    ELSE FactSum(list_fact, n - 1, r2) + Term(list_fact[n], n - 1, r2)

Clip(v, lo, hi) == IF v < lo THEN lo ELSE IF v > hi THEN hi ELSE v

\* xd_mat[y][x] and yd_mat[y][x], flattened row-major
XdMat(xc, yc, list_fact, height, width) ==
    [j \in 1..(height * width) |->
        LET xu == ((j - 1) % width) - xc
            yu == ((j - 1) \div width) - yc
        IN  Clip(xc + FactSum(list_fact, Len(list_fact), xu * xu + yu * yu) * xu,
                 0, width - 1)]

YdMat(xc, yc, list_fact, height, width) ==
    [j \in 1..(height * width) |->
        LET xu == ((j - 1) % width) - xc
            yu == ((j - 1) \div width) - yc
        IN  Clip(yc + FactSum(list_fact, Len(list_fact), xu * xu + yu * yu) * yu,
                 0, height - 1)]

SeqMax(q) == CHOOSE m \in {q[j] : j \in 1..Len(q)} : \A j \in 1..Len(q) : q[j] <= m
SeqMin(q) == CHOOSE m \in {q[j] : j \in 1..Len(q)} : \A j \in 1..Len(q) : q[j] >= m

\* frame i (0-based) of a stack whose frames are height x width
Frame(a, i, height, width) ==
    ArrT(<<height, width>>,
         [j \in 1..(height * width) |-> a.vals[i * height * width + j]], a.dtype)

\* map_coordinates(frame, indices, order=1, mode='reflect') reshaped to
\* (height, width): at integer coordinates inside the frame the order-1
\* spline is the sample itself
MapCoordinates(frame, yd, xd, height, width) ==
    ArrT(<<height, width>>,
         [j \in 1..(height * width) |-> At(frame, <<yd[j], xd[j]>>)], frame.dtype)

\* the bounds of the Python slice [start:stop] of an axis of length n
SliceLo(n, start) == Clip(IF start < 0 THEN start + n ELSE start, 0, n)
SliceHi(n, stop) == Clip(IF stop < 0 THEN stop + n ELSE stop, 0, n)
SliceLen(n, start, stop) == Max2(0, SliceHi(n, stop) - SliceLo(n, start))

\* mat[crop:height - crop, crop:width - crop]
CropFrame(mat, crop) ==
    LET height == mat.shape[1]
        width == mat.shape[2]
        h2 == SliceLen(height, crop, height - crop)
        w2 == SliceLen(width, crop, width - crop)
        y0 == SliceLo(height, crop)
        x0 == SliceLo(width, crop)
    IN  ArrT(<<h2, w2>>,
             [j \in 1..(h2 * w2) |->
                 At(mat, <<y0 + ((j - 1) \div w2), x0 + ((j - 1) % w2)>>)],
             mat.dtype)

\* data[i] = mat: whether mat broadcasts to a frame, and the stack after it
Assignable(mat, height, width) ==
    /\ mat.shape[1] = height \/ mat.shape[1] = 1
    /\ mat.shape[2] = width \/ mat.shape[2] = 1

AssignFrame(a, i, mat, height, width) ==
    [a EXCEPT !.vals =
        [j \in 1..Len(a.vals) |->
            IF j > i * height * width /\ j <= (i + 1) * height * width
            THEN LET q == j - i * height * width - 1
                 IN  BAt(mat, <<q \div width, q % width>>, <<height, width>>)
            ELSE a.vals[j]]]

Pixels(shape) == ArrT(shape, [j \in 1..Prod(shape) |-> 10 * j], "float32")

Steps == {1, 2}
Starts == {0, 1}

\* a preview descriptor with one entry per axis of the data
Previews(nd) ==
    [starts : [1..nd -> Starts], stops : {[j \in 1..nd |-> 4]}, steps : [1..nd -> Steps]]

Explicits ==
    {[given |-> FALSE, center_from_left |-> 0, center_from_top |-> 0,
      polynomial_coeffs |-> <<>>],
     [given |-> TRUE, center_from_left |-> 1, center_from_top |-> 1,
      polynomial_coeffs |-> <<2>>]}

DistShapes ==
    {<<h, w>> : h \in 1..MaxH, w \in 2..(MaxH + 1)}
      \cup {<<n, h, w>> : n \in 1..MaxFrames, h \in 1..MaxH, w \in 2..(MaxH + 1)}

InitDistortion ==
    /\ fn = "correct_distortion"
    /\ pc = "start"
    /\ \E sh \in DistShapes, path \in Paths, e \in Explicits, c \in 0..MaxCrop :
          /\ data = Pixels(sh)
          /\ \E pv \in Previews(Len(sh)),
                f \in (IF IsFile(path) THEN FileContents ELSE {NoModel}) :
                args = [metadata_path |-> path, file |-> f, preview |-> pv,
                        explicit |-> e, crop |-> c]
    /\ flats = NoArray
    /\ darks = NoArray
    /\ snapshot = [data |-> data, flats |-> flats, darks |-> darks]
    /\ loc = [x_center |-> 0, y_center |-> 0, list_fact |-> <<>>,
              n |-> 0, height |-> 0, width |-> 0, xd |-> <<>>, yd |-> <<>>,
              i |-> 0, mat_corrected |-> NoArray]
    /\ result = NoArray
    /\ err = NoErr
    /\ computed = FALSE

x_dim == 1
y_dim == 0

\* element i (0-based, as in the source) of a Python list
Item(list, i) == list[i + 1]

\* _load_metadata_txt(file_path): open() raises for None and for a path that
\* names no file
LoadError(path) ==
    IF path = "None"
    THEN Raise("TypeError", "expected str, bytes or os.PathLike object, not NoneType")
    ELSE IF ~IsFile(path)
    THEN Raise("FileNotFoundError", "No such file or directory")
    ELSE NoErr

\* if len(data.shape) == 2: expand_dims; x_center, y_center, list_fact =
\* _load_metadata_txt(metadata_path)
DistLoad ==
    /\ fn = "correct_distortion" /\ pc = "start"
    /\ LET sh == IF Ndim(data) = 2 THEN <<1>> \o data.shape ELSE data.shape
           e == LoadError(args.metadata_path)
       IN  IF e # NoErr
           THEN /\ err' = e
                /\ pc' = "raised"
                /\ UNCHANGED loc
           ELSE /\ loc' = [loc EXCEPT !.n = Item(sh, 0), !.height = Item(sh, y_dim + 1),
                                      !.width = Item(sh, x_dim + 1),
                                      !.x_center = args.file.x,
                                      !.y_center = args.file.y,
                                      !.list_fact = args.file.fact]
                /\ pc' = "step_check"
                /\ UNCHANGED err
    /\ UNCHANGED <<fn, args, data, flats, darks, snapshot, result, computed>>

\* step_check = max([step[i] for i in [x_dim, y_dim]]) > 1
StepCheck(pv) == Max2(Item(pv.steps, x_dim), Item(pv.steps, y_dim)) > 1

DistStepCheck ==
    /\ fn = "correct_distortion" /\ pc = "step_check"
    /\ IF StepCheck(args.preview)
       THEN /\ err' = Raise("ValueError", "Method doesn't work with the step in the preview larger than 1")
            /\ pc' = "raised"
       ELSE /\ pc' = "resolve"
            /\ UNCHANGED err
    /\ UNCHANGED <<fn, args, data, flats, darks, snapshot, loc, result, computed>>

\* x_offset = shift[x_dim]
x_offset(pv) == Item(pv.starts, x_dim)

\* y_offset = shift[y_dim]
y_offset(pv) == Item(pv.starts, y_dim)

\* x_offset, y_offset; the model from the explicit arguments or from the file
DistResolve ==
    /\ fn = "correct_distortion" /\ pc = "resolve"
    /\ LET xo == x_offset(args.preview)
           yo == y_offset(args.preview)
       IN  IF args.metadata_path = "None"
           THEN IF args.explicit.given
                THEN /\ loc' = [loc EXCEPT
                                  !.x_center = args.explicit.center_from_left - xo,
                                  !.y_center = args.explicit.center_from_top - yo,
                                  !.list_fact = args.explicit.polynomial_coeffs]
                     /\ pc' = "build_map"
                     /\ UNCHANGED err
                ELSE /\ err' = Raise("TypeError", "'NoneType' object is not iterable")
                     /\ pc' = "raised"
                     /\ UNCHANGED loc
           ELSE IF ~IsFile(args.metadata_path)
           THEN /\ err' = Raise("ValueError", "!!! No such file !!! Please check the file path")
                /\ pc' = "raised"
                /\ UNCHANGED loc
           ELSE /\ loc' = [loc EXCEPT !.x_center = args.file.x - xo,
                                      !.y_center = args.file.y - yo,
                                      !.list_fact = args.file.fact]
                /\ pc' = "build_map"
                /\ UNCHANGED err
    /\ UNCHANGED <<fn, args, data, flats, darks, snapshot, result, computed>>

\* xd_mat, yd_mat and the check of diff_y
DistBuildMap ==
    /\ fn = "correct_distortion" /\ pc = "build_map"
    /\ LET xd == XdMat(loc.x_center, loc.y_center, loc.list_fact, loc.height, loc.width)
           yd == YdMat(loc.x_center, loc.y_center, loc.list_fact, loc.height, loc.width)
       IN  IF SeqMax(yd) - SeqMin(yd) < 1
           THEN /\ err' = Raise("ValueError", "You need to increase the preview size for this plugin to work")
                /\ pc' = "raised"
                /\ UNCHANGED loc
           ELSE /\ loc' = [loc EXCEPT !.xd = xd, !.yd = yd, !.i = 0]
                /\ pc' = "loop"
                /\ UNCHANGED err
    /\ UNCHANGED <<fn, args, data, flats, darks, snapshot, result, computed>>

\* one pass of the loop over the frames: resample, crop, data[i] = mat_corrected
DistFrame ==
    /\ fn = "correct_distortion" /\ pc = "loop" /\ loc.i < loc.n
    /\ LET mat == CropFrame(MapCoordinates(Frame(data, loc.i, loc.height, loc.width),
                                           loc.yd, loc.xd, loc.height, loc.width),
                            args.crop)
       IN  /\ computed' = TRUE
           /\ IF Assignable(mat, loc.height, loc.width)
              THEN /\ data' = AssignFrame(data, loc.i, mat, loc.height, loc.width)
                   /\ loc' = [loc EXCEPT !.mat_corrected = mat, !.i = loc.i + 1]
                   /\ UNCHANGED <<err, pc>>
              ELSE /\ err' = Raise("ValueError", "could not broadcast input array")
                   /\ pc' = "raised"
                   /\ loc' = [loc EXCEPT !.mat_corrected = mat]
                   /\ UNCHANGED data
    /\ UNCHANGED <<fn, args, flats, darks, snapshot, result>>

\* return mat_corrected
DistReturn ==
    /\ fn = "correct_distortion" /\ pc = "loop" /\ loc.i = loc.n
    /\ result' = loc.mat_corrected
    /\ pc' = "returned"
    /\ UNCHANGED <<fn, args, data, flats, darks, snapshot, loc, err, computed>>

NextDistortion ==
    DistLoad \/ DistStepCheck \/ DistResolve \/ DistBuildMap \/ DistFrame \/ DistReturn

SpecDistortion == InitDistortion /\ [][NextDistortion]_vars

---------------------------------------------------------------------------
(* The three transforms together *)

Init == InitNormalize \/ InitMedian \/ InitDistortion

Next == NextNormalize \/ NextMedian \/ NextDistortion

Spec == Init /\ [][Next]_vars

---------------------------------------------------------------------------
(* Claims about correct_distortion *)

Ended == Returned \/ Raised

\* the stack as the caller sees it: N frames of H x W
GivenN == IF Ndim(snapshot.data) = 2 THEN 1 ELSE snapshot.data.shape[1]
GivenH == snapshot.data.shape[Ndim(snapshot.data) - 1]
GivenW == snapshot.data.shape[Ndim(snapshot.data)]

\* the preview entries of the spatial axes: the row axis is the last but one
\* and the column axis the last
RowStep == args.preview.steps[Len(args.preview.steps) - 1]
ColStep == args.preview.steps[Len(args.preview.steps)]
RowStart == args.preview.starts[Len(args.preview.starts) - 1]
ColStart == args.preview.starts[Len(args.preview.starts)]

IsStepError == Failed /\ err.msg = "Method doesn't work with the step in the preview larger than 1"

\* C1 as stated: with 2 * crop < min(H, W), a call that returns gives N frames
\* of (H - 2 crop) x (W - 2 crop), and a call that has begun to resample does
\* not fail.
C1_OutputShape ==
    (fn = "correct_distortion" /\ 2 * args.crop < Min2(GivenH, GivenW)) =>
        /\ Returned =>
              /\ Prod(result.shape) =
                    GivenN * (GivenH - 2 * args.crop) * (GivenW - 2 * args.crop)
              /\ result.shape[Ndim(result) - 1] = GivenH - 2 * args.crop
              /\ result.shape[Ndim(result)] = GivenW - 2 * args.crop
        /\ computed => ~Failed

\* C2 as stated: with metadata_path = None and the center and coefficients
\* supplied, the call raises no error for the absent file, and the model it
\* builds the map from is the supplied center minus the preview offsets with
\* the supplied coefficients.
C2_ExplicitModel ==
    (/\ fn = "correct_distortion"
     /\ args.metadata_path = "None"
     /\ args.explicit.given) =>
        /\ err.type \notin {"TypeError", "FileNotFoundError"}
        /\ (pc \in {"build_map", "loop", "returned"}) =>
              /\ loc.x_center = args.explicit.center_from_left - ColStart
              /\ loc.y_center = args.explicit.center_from_top - RowStart
              /\ loc.list_fact = args.explicit.polynomial_coeffs

\* the distortion model is supplied: by the explicit arguments, or by a file
ModelSupplied ==
    \/ args.metadata_path = "None" /\ args.explicit.given
    \/ args.metadata_path # "None" /\ IsFile(args.metadata_path)

\* C7 as stated: whichever way the model is supplied, the call fails with the
\* validation error of the preview step when the step of the row or of the
\* column axis exceeds 1, and not with this error when both are at most 1.
C7_StepValidation ==
    (fn = "correct_distortion" /\ ModelSupplied /\ Ended) =>
        IF RowStep > 1 \/ ColStep > 1
        THEN Raised /\ IsStepError
        ELSE ~IsStepError

\* C8 as stated: the call fails with a ValueError when metadata_path is None
\* and the explicit model is not supplied, and when metadata_path names no file.
C8_ConfigurationError ==
    (/\ fn = "correct_distortion"
     /\ Ended
     /\ \/ args.metadata_path = "None" /\ ~args.explicit.given
        \/ args.metadata_path # "None" /\ ~IsFile(args.metadata_path)) =>
        Raised /\ err.type = "ValueError"

---------------------------------------------------------------------------
(* Claims about the three transforms *)

\* C9 as stated: at every point of a call the caller's data, flats and darks
\* hold what they held when the call was made.
C9_InputsUnchanged ==
    /\ data = snapshot.data
    /\ flats = snapshot.flats
    /\ darks = snapshot.darks

\* C10 as stated: no call fails after a step that computes on the data
\* (reduction of the calibration frames, kernel launch, resampling of a frame).
C10_ValidateThenExecute == Failed => ~computed

\* the previews that differ from pv at most in the entries of the frame axis
\* of a 3D stack
FrameVariants(pv) ==
    {q \in Previews(3) :
        /\ q.stops = pv.stops
        /\ \A j \in 2..3 : q.starts[j] = pv.starts[j] /\ q.steps[j] = pv.steps[j]}

\* C12 as stated: for a 3D stack with the model read from an existing file,
\* the center the map is built from is the file's x center minus the start of
\* the column axis and its y center minus the start of the row axis; and a
\* call with any other frame-axis start or step takes the same branch of the
\* step check and, past it, resolves the same offsets.
C12_SpatialEntriesOnly ==
    (/\ fn = "correct_distortion"
     /\ Ndim(snapshot.data) = 3
     /\ IsFile(args.metadata_path)) =>
        /\ pc \in {"build_map", "loop", "returned"} =>
              /\ loc.x_center = args.file.x - ColStart
              /\ loc.y_center = args.file.y - RowStart
        /\ pc \notin {"start", "step_check"} =>
              \A q \in FrameVariants(args.preview) :
                  /\ StepCheck(q) = StepCheck(args.preview)
                  /\ ~StepCheck(q) =>
                        /\ x_offset(q) = x_offset(args.preview)
                        /\ y_offset(q) = y_offset(args.preview)

\* list_fact = [1, 0, 0, ...]
IdentityCoeffs(list_fact) ==
    /\ Len(list_fact) >= 1
    /\ list_fact[1] = 1
    /\ \A j \in 2..Len(list_fact) : list_fact[j] = 0

\* pixel (y, x) of frame f of the stack the caller passed
GivenPixel(f, y, x) == snapshot.data.vals[(f * GivenH + y) * GivenW + x + 1]

\* C13 as stated: with coefficients [1, 0, 0, ...] read from an existing file,
\* whatever the center, the sampling map is the identity (x_src = x and
\* y_src = y at every destination pixel), and a call that returns gives every
\* frame of the input without its crop pixels on each edge.
C13_IdentityModel ==
    (/\ fn = "correct_distortion"
     /\ IsFile(args.metadata_path)
     /\ IdentityCoeffs(args.file.fact)) =>
        /\ pc \in {"loop", "returned"} =>
              \A j \in 1..(GivenH * GivenW) :
                  /\ loc.xd[j] = (j - 1) % GivenW
                  /\ loc.yd[j] = (j - 1) \div GivenW
        /\ Returned =>
              LET h2 == GivenH - 2 * args.crop
                  w2 == GivenW - 2 * args.crop
              IN  /\ Len(result.vals) = GivenN * h2 * w2
                  /\ \A f \in 0..(GivenN - 1), y \in 0..(h2 - 1), x \in 0..(w2 - 1) :
                        result.vals[(f * h2 + y) * w2 + x + 1] =
                            GivenPixel(f, y + args.crop, x + args.crop)

=============================================================================
